---- MODULE Spec2Model ----
(***************************************************************************)
(* Model of the measurement store (MeasurementContext: MeasurementProvider *)
(* and useMeasurements) and of the DataEntry page that feeds it.           *)
(*                                                                         *)
(* Numbers typed into the form carry one decimal (the inputs use           *)
(* step="0.1"), so every form number is held in tenths: 800 is 80.0 kg,    *)
(* 1 is 0.1, 1000 is 100.0 %.  Dates are milliseconds since the epoch,     *)
(* abstracted to the small integers 1..MaxDate.                            *)
(***************************************************************************)
EXTENDS Integers, Sequences, FiniteSets, TLC

VARIABLES
    measurements,   \* the provider's state as the current render sees it
    mock,           \* mockMeasurements, the value useState was seeded with
    addCalls,       \* every argument addMeasurement was called with, in order
    observed,       \* what the last store consumer's handler read after its adds
    hook,           \* outcome of the last useMeasurements() call
    user,           \* useUser().user
    page,           \* the route shown: "entry" (DataEntry mounted) or "/"
    formData,       \* DataEntry's formData state
    errors,         \* DataEntry's errors state
    formSubmitted,  \* DataEntry's formSubmitted state
    edits,          \* change events the mounted form has handled
    lastSubmit      \* the form handleSubmit ran on, when it was the last handler

vars == <<measurements, mock, addCalls, observed, hook,
          user, page, formData, errors, formSubmitted, edits, lastSubmit>>

formVars == <<user, page, formData, errors, formSubmitted, edits, lastSubmit>>

----------------------------------------------------------------------------
(* Bounds *)

MaxLen == 3        \* longest collection explored by the store specification
MaxDate == 2       \* dates range over 1..MaxDate
MaxBatch == 2      \* addMeasurement calls made by one handler before React re-renders
MaxEdits == 3      \* change events handled by one mounted DataEntry form

Ids == {"a", "b"}
Dates == 1..MaxDate

Range(s) == {s[i] : i \in 1..Len(s)}

SeqsUpTo(S, n) == UNION {[1..k -> S] : k \in 0..n}

----------------------------------------------------------------------------
(* JavaScript values *)

\* parseFloat("") and a missing property; kept apart from every number
NaN == -999
undefined == -998

IsNumber(x) == x \notin {NaN, undefined}

\* ToBoolean on number | undefined: 0, NaN and undefined are falsy
Truthy(x) == x \notin {0, NaN, undefined}

\* relational operators: any comparison with NaN or undefined is false
JsLt(x, c) == IsNumber(x) /\ x < c
JsLe(x, c) == IsNumber(x) /\ x <= c
JsGt(x, c) == IsNumber(x) /\ x > c

\* x || d
OrElse(x, d) == IF Truthy(x) THEN x ELSE d

\* the absent result of Array.prototype.find and of sorting an empty collection
Absent == [absent |-> TRUE]

----------------------------------------------------------------------------
(* Measurement records *)

\* a Measurement as a store caller hands it over: the store reads id and date only
Measurement(id, date) ==
    [id |-> id, userId |-> "u1", date |-> date,
     weight |-> 800, bodyFatMass |-> 160000, bodyFatPercentage |-> 200,
     skeletalMuscleMass |-> 350, bmi |-> 0, pbf |-> 200,
     visceralFat |-> 0, waterPercentage |-> 0, basalMetabolicRate |-> 0,
     metabolicAge |-> undefined]

Measurements == {Measurement(i, d) : i \in Ids, d \in Dates}

----------------------------------------------------------------------------
(* MeasurementProvider *)

\* addMeasurement with a stale-closure update: setMeasurements([...measurements, m])
addMeasurement_stale(closure, measurement) ==
    [updater |-> FALSE, value |-> Append(closure, measurement)]

\* addMeasurement forgetting the new element: prev => [...prev]
addMeasurement_drop(closure, measurement) ==
    [updater |-> TRUE, arg |-> <<>>]

\* addMeasurement: enqueues the updater prev => [...prev, measurement].
\* closure is the measurements value of the render that created the function.
addMeasurement(closure, measurement) ==
    [updater |-> TRUE, arg |-> <<measurement>>]

\* React's useState reducer: a function update is applied to the previous
\* state, a plain value replaces it
ApplyUpdate(prev, u) == IF u.updater THEN prev \o u.arg ELSE u.value

\* the queued updates are processed in call order when the provider re-renders
RECURSIVE ProcessQueue(_, _)
ProcessQueue(state, queue) ==
    IF queue = <<>> THEN state
    ELSE ProcessQueue(ApplyUpdate(state, Head(queue)), Tail(queue))

\* find with the predicate on the wrong field
RECURSIVE getMeasurementById_userId(_, _)
getMeasurementById_userId(closure, id) ==
    IF closure = <<>> THEN Absent
    ELSE IF Head(closure).userId = id THEN Head(closure)
    ELSE getMeasurementById_userId(Tail(closure), id)

\* getMeasurementById: measurements.find(m => m.id === id), first match or absent
RECURSIVE getMeasurementById(_, _)
getMeasurementById(closure, id) ==
    IF closure = <<>> THEN Absent
    ELSE IF Head(closure).id = id THEN Head(closure)
    ELSE getMeasurementById(Tail(closure), id)

\* the comparator with its operands swapped (ascending order)
compare_asc(a, b) == a.date - b.date

\* the comparator of getLatestMeasurement: b.date - a.date
compare(a, b) == b.date - a.date

\* an insertion step that puts x in front of its equals (an unstable sort)
RECURSIVE Insert_unstable(_, _)
Insert_unstable(sorted, x) ==
    IF sorted = <<>> THEN <<x>>
    ELSE IF compare(Head(sorted), x) >= 0
         THEN <<x>> \o sorted
         ELSE <<Head(sorted)>> \o Insert_unstable(Tail(sorted), x)

\* insertion of x into a sorted sequence behind every element it does not
\* strictly precede: the step of a stable sort
RECURSIVE Insert(_, _)
Insert(sorted, x) ==
    IF sorted = <<>> THEN <<x>>
    ELSE IF compare(Head(sorted), x) > 0
         THEN <<x>> \o sorted
         ELSE <<Head(sorted)>> \o Insert(Tail(sorted), x)

\* Array.prototype.sort(compare) on a copy: stable since ES2019
RECURSIVE Sort(_)
Sort(s) ==
    IF s = <<>> THEN <<>>
    ELSE Insert(Sort(SubSeq(s, 1, Len(s) - 1)), s[Len(s)])

\* getLatestMeasurement: absent on an empty collection, else the head of the
\* collection sorted by date, most recent first
getLatestMeasurement(closure) ==
    IF Len(closure) = 0 THEN Absent ELSE Sort(closure)[1]

\* useMeasurements returning a default store instead of throwing
useMeasurements_default(context) ==
    IF context = Absent
    THEN [threw |-> FALSE, message |-> "", value |-> [measurements |-> <<>>]]
    ELSE [threw |-> FALSE, message |-> "", value |-> context]

\* useMeasurements: throws when useContext yields the createContext default
useMeasurements(context) ==
    IF context = Absent
    THEN [threw |-> TRUE,
          message |-> "useMeasurements must be used within a MeasurementProvider",
          value |-> Absent]
    ELSE [threw |-> FALSE, message |-> "", value |-> context]

\* the value MeasurementContext.Provider hands to its consumers
ContextValue(ms) == [measurements |-> ms]

NotCalled ==
    [called |-> FALSE, inProvider |-> FALSE, threw |-> FALSE, message |-> "",
     value |-> Absent]
NothingObserved == [acted |-> FALSE]

----------------------------------------------------------------------------
(* DataEntry *)

NoUser == [absent |-> TRUE]

Users == {[id |-> "1", height |-> 180], [id |-> "2", height |-> 165]}

\* n as a form number (tenths)
Tenths(n) == n * 10

initialFormData ==
    [weight |-> 0, bodyFatMass |-> 0, bodyFatPercentage |-> 0,
     skeletalMuscleMass |-> 0, visceralFat |-> 0, waterPercentage |-> 0,
     basalMetabolicRate |-> 0, metabolicAge |-> undefined]

NoErrors == <<>>

NoSubmit == [done |-> FALSE]

\* the inputs of the form and the texts typed into them; a number input
\* reports "" when it is empty
Typed ==
    [weight |-> {"", "-1", "0.1", "80"},
     bodyFatPercentage |-> {"", "-1", "0", "20", "150"},
     skeletalMuscleMass |-> {"", "-1", "0.1", "35"},
     visceralFat |-> {"", "5"},
     waterPercentage |-> {"", "-1", "55", "150"},
     basalMetabolicRate |-> {"", "1500"},
     metabolicAge |-> {"", "30"}]

Inputs == DOMAIN Typed

\* parseFloat on the texts above, in tenths
parseFloat(value) ==
    CASE value = ""     -> NaN
      [] value = "-1"   -> 0 - Tenths(1)
      [] value = "0"    -> 0
      [] value = "0.1"  -> 1
      [] value = "5"    -> Tenths(5)
      [] value = "20"   -> Tenths(20)
      [] value = "30"   -> Tenths(30)
      [] value = "35"   -> Tenths(35)
      [] value = "55"   -> Tenths(55)
      [] value = "80"   -> Tenths(80)
      [] value = "150"  -> Tenths(150)
      [] value = "1500" -> Tenths(1500)

\* newErrors[field] = message
SetError(newErrors, field, message) == (field :> message) @@ newErrors

\* errors[name] read as a condition
HasError(errs, name) == name \in DOMAIN errs /\ errs[name] # ""

\* validateForm without the upper limit of the percentage ranges
validateForm_noUpperLimit(fd) ==
    LET e1 == IF ~Truthy(fd.weight) \/ JsLe(fd.weight, 0)
              THEN SetError(NoErrors, "weight",
                            "Weight is required and must be greater than 0")
              ELSE NoErrors
        e2 == IF ~Truthy(fd.bodyFatPercentage) \/ JsLt(fd.bodyFatPercentage, 0)
              THEN SetError(e1, "bodyFatPercentage",
                            "Body fat percentage is required and must be non-negative")
              ELSE e1
        e3 == IF ~Truthy(fd.skeletalMuscleMass) \/ JsLe(fd.skeletalMuscleMass, 0)
              THEN SetError(e2, "skeletalMuscleMass",
                            "Skeletal muscle mass is required and must be greater than 0")
              ELSE e2
        e4 == IF Truthy(fd.bodyFatPercentage) /\ JsLt(fd.bodyFatPercentage, 0)
              THEN SetError(e3, "bodyFatPercentage",
                            "Body fat percentage must be between 0 and 100")
              ELSE e3
        e5 == IF Truthy(fd.waterPercentage) /\ JsLt(fd.waterPercentage, 0)
              THEN SetError(e4, "waterPercentage",
                            "Water percentage must be between 0 and 100")
              ELSE e4
    IN  e5

\* validateForm: the errors it passes to setErrors; it returns true when
\* they have no key
validateForm(fd) ==
    LET e1 == IF ~Truthy(fd.weight) \/ JsLe(fd.weight, 0)
              THEN SetError(NoErrors, "weight",
                            "Weight is required and must be greater than 0")
              ELSE NoErrors
        e2 == IF ~Truthy(fd.bodyFatPercentage) \/ JsLt(fd.bodyFatPercentage, 0)
              THEN SetError(e1, "bodyFatPercentage",
                            "Body fat percentage is required and must be non-negative")
              ELSE e1
        e3 == IF ~Truthy(fd.skeletalMuscleMass) \/ JsLe(fd.skeletalMuscleMass, 0)
              THEN SetError(e2, "skeletalMuscleMass",
                            "Skeletal muscle mass is required and must be greater than 0")
              ELSE e2
        e4 == IF Truthy(fd.bodyFatPercentage)
                 /\ (JsLt(fd.bodyFatPercentage, 0)
                     \/ JsGt(fd.bodyFatPercentage, Tenths(100)))
              THEN SetError(e3, "bodyFatPercentage",
                            "Body fat percentage must be between 0 and 100")
              ELSE e3
        e5 == IF Truthy(fd.waterPercentage)
                 /\ (JsLt(fd.waterPercentage, 0)
                     \/ JsGt(fd.waterPercentage, Tenths(100)))
              THEN SetError(e4, "waterPercentage",
                            "Water percentage must be between 0 and 100")
              ELSE e4
    IN  e5

\* calculateBMI(weight, height): the formula lives in utils/healthCalculations;
\* the call is kept as an uninterpreted term over its two arguments
calculateBMI(weight, height) ==
    [fn |-> "calculateBMI", weight |-> weight, height |-> height]

\* uuidv4(): an id no stored measurement carries
uuidv4(stored) ==
    CHOOSE id \in {"uuid-1", "uuid-2", "uuid-3", "uuid-4", "uuid-5"} :
        \A i \in 1..Len(stored) : stored[i].id # id

\* the record with the arguments of calculateBMI swapped
newMeasurement_bmiSwapped(fd, u, id, now) ==
    [id |-> id, userId |-> u.id, date |-> now,
     weight |-> fd.weight,
     bodyFatMass |-> fd.weight * fd.bodyFatPercentage,
     bodyFatPercentage |-> fd.bodyFatPercentage,
     skeletalMuscleMass |-> fd.skeletalMuscleMass,
     bmi |-> calculateBMI(u.height, fd.weight),
     pbf |-> fd.bodyFatPercentage,
     visceralFat |-> OrElse(fd.visceralFat, 0),
     waterPercentage |-> OrElse(fd.waterPercentage, 0),
     basalMetabolicRate |-> OrElse(fd.basalMetabolicRate, 0),
     metabolicAge |-> fd.metabolicAge]

\* the record handleSubmit builds from an accepted form. weight and
\* bodyFatPercentage are tenths, so weight * (bodyFatPercentage / 100) is
\* their product counted in 1/10000 kg.
newMeasurement(fd, u, id, now) ==
    [id |-> id, userId |-> u.id, date |-> now,
     weight |-> fd.weight,
     bodyFatMass |-> fd.weight * fd.bodyFatPercentage,
     bodyFatPercentage |-> fd.bodyFatPercentage,
     skeletalMuscleMass |-> fd.skeletalMuscleMass,
     bmi |-> calculateBMI(fd.weight, u.height),
     pbf |-> fd.bodyFatPercentage,
     visceralFat |-> OrElse(fd.visceralFat, 0),
     waterPercentage |-> OrElse(fd.waterPercentage, 0),
     basalMetabolicRate |-> OrElse(fd.basalMetabolicRate, 0),
     metabolicAge |-> fd.metabolicAge]

----------------------------------------------------------------------------
(* Store specification: consumers of the provider *)

Init ==
    /\ mock \in SeqsUpTo(Measurements, MaxLen)
    /\ measurements = mock
    /\ addCalls = <<>>
    /\ observed = NothingObserved
    /\ hook = NotCalled
    /\ user = NoUser
    /\ page = "/"
    /\ formData = initialFormData
    /\ errors = NoErrors
    /\ formSubmitted = FALSE
    /\ edits = 0
    /\ lastSubmit = NoSubmit

\* A consumer rendered under the provider handles one event: it calls
\* addMeasurement for every element of batch, reads the store through the
\* functions of the render that created the handler, and returns; React then
\* processes the queued updates and re-renders the provider and its consumers.
ConsumerEvent(batch) ==
    LET queue == [i \in 1..Len(batch) |-> addMeasurement(measurements, batch[i])]
        m == batch[Len(batch)]
    IN  /\ Len(measurements) + Len(batch) <= MaxLen
        /\ observed' = [acted |-> TRUE,
                        batch |-> batch,
                        list |-> measurements,
                        byId |-> getMeasurementById(measurements, m.id),
                        latest |-> getLatestMeasurement(measurements)]
        /\ measurements' = ProcessQueue(measurements, queue)
        /\ addCalls' = addCalls \o batch
        /\ hook' = IF hook.called /\ ~hook.threw
                   THEN [hook EXCEPT !.value = ContextValue(measurements')]
                   ELSE hook
        /\ UNCHANGED <<mock, formVars>>

\* A component calls useMeasurements() while rendering, under the provider or
\* outside of it.
UseMeasurements(inProvider) ==
    LET context == IF inProvider THEN ContextValue(measurements) ELSE Absent
        result == useMeasurements(context)
    IN  /\ hook' = [called |-> TRUE, inProvider |-> inProvider,
                    threw |-> result.threw, message |-> result.message,
                    value |-> result.value]
        /\ UNCHANGED <<measurements, mock, addCalls, observed, formVars>>

Next ==
    \/ \E batch \in SeqsUpTo(Measurements, MaxBatch) \ {<<>>} : ConsumerEvent(batch)
    \/ \E inProvider \in BOOLEAN : UseMeasurements(inProvider)

Spec == Init /\ [][Next]_vars

----------------------------------------------------------------------------
(* DataEntry specification: one mounted DataEntry page, from its first render *)
(* to the navigation away from it                                             *)

\* collections the page can find in the store when it mounts
EntrySeeds ==
    {<<>>,
     <<Measurement("a", 1)>>,
     <<Measurement("a", MaxDate), Measurement("b", 1)>>}

InitEntry ==
    /\ mock \in EntrySeeds
    /\ measurements = mock
    /\ addCalls = <<>>
    /\ observed = NothingObserved
    /\ hook = NotCalled
    /\ user \in Users \cup {NoUser}
    /\ page = "entry"
    /\ formData = initialFormData
    /\ errors = NoErrors
    /\ formSubmitted = FALSE
    /\ edits = 0
    /\ lastSubmit = NoSubmit

\* DataEntry rendering the form whether or not a user is set
FormShown_noGuard == page = "entry"

\* the form and its handlers exist only when DataEntry renders with a user
FormShown == page = "entry" /\ user # NoUser

handleChange(name, value) ==
    LET numberValue == parseFloat(value)
    IN  /\ FormShown
        /\ edits < MaxEdits
        /\ edits' = edits + 1
        /\ formData' = [formData EXCEPT ![name] = numberValue]
        /\ errors' = IF HasError(errors, name)
                     THEN (name :> "") @@ errors
                     ELSE errors
        /\ lastSubmit' = NoSubmit
        /\ UNCHANGED <<measurements, mock, addCalls, observed, hook,
                       user, page, formSubmitted>>

\* navigate('/'): DataEntry unmounts and its component state is discarded
Unmount ==
    /\ page' = "/"
    /\ formData' = initialFormData
    /\ errors' = NoErrors
    /\ formSubmitted' = FALSE
    /\ edits' = 0

\* now is the reading of new Date()
handleSubmit(now) ==
    LET newErrors == validateForm(formData)
        record == newMeasurement(formData, user, uuidv4(measurements), now)
        queue == <<addMeasurement(measurements, record)>>
    IN  /\ FormShown
        /\ lastSubmit' = [done |-> TRUE, formData |-> formData,
                          accepted |-> DOMAIN newErrors = {}]
        /\ IF DOMAIN newErrors # {}
           THEN /\ formSubmitted' = TRUE
                /\ errors' = newErrors
                /\ UNCHANGED <<measurements, addCalls, page, formData, edits>>
           ELSE /\ measurements' = ProcessQueue(measurements, queue)
                /\ addCalls' = Append(addCalls, record)
                /\ Unmount
        /\ UNCHANGED <<mock, observed, hook, user>>

handleCancel ==
    /\ FormShown
    /\ Unmount
    /\ lastSubmit' = NoSubmit
    /\ UNCHANGED <<measurements, mock, addCalls, observed, hook, user>>

NextEntry ==
    \/ \E name \in Inputs : \E value \in Typed[name] : handleChange(name, value)
    \/ \E now \in Dates : handleSubmit(now)
    \/ handleCancel

SpecEntry == InitEntry /\ [][NextEntry]_vars

----------------------------------------------------------------------------
(* Properties of the store *)

Last(s) == s[Len(s)]

\* C1 as stated: for every measurement m and every reachable state, once
\* addMeasurement(m) has been processed, getMeasurementById(m.id) returns m.
C1_LookupReturnsAdded ==
    addCalls # <<>> =>
        getMeasurementById(measurements, Last(addCalls).id) = Last(addCalls)

\* C1 amended: once addMeasurement(m) has been processed, getMeasurementById(m.id)
\* returns the first stored measurement whose id is m.id, and that is m itself
\* whenever no measurement stored before m carries the same id.
C1_LookupReturnsFirstMatch ==
    addCalls # <<>> =>
        LET m == Last(addCalls)
            r == getMeasurementById(measurements, m.id)
            n == Len(measurements)
        IN  /\ \E i \in 1..n :
                /\ measurements[i].id = m.id
                /\ \A j \in 1..(i - 1) : measurements[j].id # m.id
                /\ r = measurements[i]
            /\ (\A j \in 1..(n - 1) : measurements[j].id # m.id) => r = m

C1_Witness ==
    /\ addCalls # <<>>
    /\ Len(measurements) >= 2
    /\ \A j \in 1..(Len(measurements) - 1) :
           measurements[j].id # Last(addCalls).id
    /\ getMeasurementById(measurements, Last(addCalls).id) = Last(addCalls)

\* C2: the collection is append-only. Every step extends the collection by
\* exactly the measurements addMeasurement was called with during the step, in
\* call order and at the end; the measurements stored before keep their
\* values and positions; the length never decreases.
C2_AppendOnly ==
    [][LET k == Len(addCalls') - Len(addCalls)
           n == Len(measurements)
       IN  /\ k >= 0
           /\ Len(measurements') = n + k
           /\ \A i \in 1..n : measurements'[i] = measurements[i]
           /\ \A j \in 1..k : measurements'[n + j] = addCalls'[Len(addCalls) + j]
      ]_vars

C2_Witness ==
    /\ observed.acted
    /\ Len(observed.batch) = 2
    /\ Len(mock) >= 1
    /\ measurements = mock \o addCalls
    /\ Len(measurements) = Len(observed.list) + 2

\* C3: getLatestMeasurement() returns absent on an empty collection, and
\* otherwise an element of the collection whose date is greater than or equal
\* to the date of every element, whatever the insertion order.
C3_LatestHasMaxDate ==
    LET r == getLatestMeasurement(measurements)
    IN  IF Len(measurements) = 0
        THEN r = Absent
        ELSE /\ r \in Range(measurements)
             /\ \A i \in 1..Len(measurements) : r.date >= measurements[i].date

C3_Witness ==
    /\ addCalls # <<>>
    /\ Len(measurements) >= 2
    /\ measurements[1].date > Last(measurements).date
    /\ getLatestMeasurement(measurements) = measurements[1]

\* C4: when several measurements share the maximum date, getLatestMeasurement()
\* returns the one inserted earliest among them.
C4_TieBreakEarliestInserted ==
    Len(measurements) > 0 =>
        \E i \in 1..Len(measurements) :
            /\ \A j \in 1..Len(measurements) :
                   measurements[j].date <= measurements[i].date
            /\ \A j \in 1..(i - 1) : measurements[j].date < measurements[i].date
            /\ getLatestMeasurement(measurements) = measurements[i]

C4_Witness ==
    /\ addCalls # <<>>
    /\ \E i, j \in 1..Len(measurements) :
           /\ i < j
           /\ measurements[i].date = measurements[j].date
           /\ measurements[i].id # measurements[j].id
           /\ \A k \in 1..Len(measurements) :
                  measurements[k].date <= measurements[i].date
           /\ \A k \in 1..(i - 1) : measurements[k].date < measurements[i].date
           /\ getLatestMeasurement(measurements) = measurements[i]

\* C9 as stated: a read of the collection made by the caller directly after
\* addMeasurement(m), within the same handler, already observes the update.
C9_ReadAfterAddIsFresh ==
    observed.acted => observed.list = measurements

\* C9 amended: a read made within the same handler after addMeasurement still
\* observes the collection of the render that created the handler, without
\* the added measurements; the queued additions are applied together when the
\* handler has returned, so the next render observes all of them.
C9_ReadAfterAddIsStale ==
    observed.acted =>
        /\ measurements = observed.list \o observed.batch
        /\ Len(observed.list) < Len(measurements)
        /\ observed.latest \in Range(observed.list) \cup {Absent}
        /\ observed.byId \in Range(observed.list) \cup {Absent}

C9_Witness ==
    /\ observed.acted
    /\ observed.byId = Absent
    /\ getMeasurementById(measurements, Last(observed.batch).id) = Last(observed.batch)
    /\ observed.latest # getLatestMeasurement(measurements)

\* C10: useMeasurements() called outside a MeasurementProvider throws an error
\* with a message and returns nothing; called under a provider it returns the
\* provider's store and does not throw.
C10_AccessorOutsideProviderThrows ==
    hook.called =>
        IF hook.inProvider
        THEN ~hook.threw /\ hook.value = ContextValue(measurements)
        ELSE hook.threw /\ hook.message # "" /\ hook.value = Absent

C10_Witness ==
    /\ hook.called
    /\ ~hook.inProvider
    /\ hook.threw
    /\ addCalls # <<>>

----------------------------------------------------------------------------
(* Properties of the data-entry flow *)

\* the fields of a form that break the declared ranges: weight missing or
\* <= 0, bodyFatPercentage missing or outside [0,100], skeletalMuscleMass
\* missing or <= 0, waterPercentage present and outside [0,100]
Offending(fd) ==
    {f \in {"weight", "skeletalMuscleMass"} : ~IsNumber(fd[f]) \/ fd[f] <= 0}
    \cup {f \in {"bodyFatPercentage"} :
              ~IsNumber(fd[f]) \/ fd[f] < 0 \/ fd[f] > Tenths(100)}
    \cup {f \in {"waterPercentage"} :
              IsNumber(fd[f]) /\ (fd[f] < 0 \/ fd[f] > Tenths(100))}

Optional == {"visceralFat", "waterPercentage", "basalMetabolicRate", "metabolicAge"}

\* C5: a submission with an offending field is rejected: every offending
\* field gets an error message, addMeasurement is not called and the
\* collection is unchanged; so every measurement the flow appends has
\* weight > 0, 0 <= bodyFatPercentage <= 100, skeletalMuscleMass > 0 and
\* 0 <= waterPercentage <= 100.
C5_InvalidSubmissionRejected ==
    /\ (lastSubmit.done /\ Offending(lastSubmit.formData) # {}) =>
           /\ ~lastSubmit.accepted
           /\ page = "entry"
           /\ \A f \in Offending(lastSubmit.formData) : HasError(errors, f)
           /\ addCalls = <<>>
           /\ measurements = mock
    /\ \A i \in 1..Len(addCalls) :
           LET m == addCalls[i]
           IN  /\ IsNumber(m.weight) /\ m.weight > 0
               /\ IsNumber(m.bodyFatPercentage)
               /\ m.bodyFatPercentage >= 0 /\ m.bodyFatPercentage <= Tenths(100)
               /\ IsNumber(m.skeletalMuscleMass) /\ m.skeletalMuscleMass > 0
               /\ IsNumber(m.waterPercentage)
               /\ m.waterPercentage >= 0 /\ m.waterPercentage <= Tenths(100)

C5_Witness ==
    /\ lastSubmit.done
    /\ Offending(lastSubmit.formData) = {"bodyFatPercentage"}
    /\ lastSubmit.formData.bodyFatPercentage = Tenths(150)
    /\ HasError(errors, "bodyFatPercentage")
    /\ Len(mock) > 0
    /\ measurements = mock

\* C6 as stated: a submission whose required fields are all within their
\* declared ranges (weight = 0.1, bodyFatPercentage = 0, skeletalMuscleMass =
\* 0.1 included) is accepted: no error, addMeasurement called exactly once.
C6_InRangeSubmissionAccepted ==
    (lastSubmit.done /\ Offending(lastSubmit.formData) = {}) =>
        /\ lastSubmit.accepted
        /\ Len(addCalls) = 1
        /\ page = "/"

\* C7 as stated: the record of an accepted submission has bodyFatMass =
\* weight * bodyFatPercentage / 100, pbf = bodyFatPercentage, bmi =
\* calculateBMI(weight, height of the profile), and getLatestMeasurement()
\* returns it once the add has taken effect, whatever the collection held.
C7_RecordIsDerivedAndLatest ==
    (lastSubmit.done /\ lastSubmit.accepted) =>
        LET m == Last(addCalls)
            fd == lastSubmit.formData
        IN  /\ m.bodyFatMass = fd.weight * fd.bodyFatPercentage
            /\ m.pbf = fd.bodyFatPercentage
            /\ m.bodyFatPercentage = fd.bodyFatPercentage
            /\ m.bmi = calculateBMI(fd.weight, user.height)
            /\ Last(measurements) = m
            /\ getLatestMeasurement(measurements) = m

\* C7 amended: the record has the derived values above and is appended at the
\* end; getLatestMeasurement() returns it exactly when every measurement the
\* collection already held has a strictly earlier date, and otherwise returns
\* one of the measurements held before.
C7_RecordIsDerivedAndLatestIfNewest ==
    (lastSubmit.done /\ lastSubmit.accepted) =>
        LET m == Last(addCalls)
            fd == lastSubmit.formData
            latest == getLatestMeasurement(measurements)
        IN  /\ m.bodyFatMass = fd.weight * fd.bodyFatPercentage
            /\ m.pbf = fd.bodyFatPercentage
            /\ m.bodyFatPercentage = fd.bodyFatPercentage
            /\ m.bmi = calculateBMI(fd.weight, user.height)
            /\ measurements = Append(mock, m)
            /\ (latest = m) <=> (\A i \in 1..Len(mock) : mock[i].date < m.date)
            /\ latest # m => latest \in Range(mock)

C7_Witness ==
    /\ lastSubmit.done /\ lastSubmit.accepted
    /\ user.height = 180
    /\ lastSubmit.formData.weight = Tenths(80)
    /\ lastSubmit.formData.bodyFatPercentage = Tenths(20)
    /\ lastSubmit.formData.skeletalMuscleMass = Tenths(35)
    /\ Last(addCalls).bodyFatMass = 160000
    /\ Last(addCalls).pbf = Tenths(20)
    /\ Len(mock) > 0
    /\ getLatestMeasurement(measurements) = Last(addCalls)

\* C8 as stated: in the record of an accepted submission no optional field
\* is left absent, and each one the user left absent is 0.
C8_AbsentOptionalsBecomeZero ==
    (lastSubmit.done /\ lastSubmit.accepted) =>
        \A f \in Optional :
            /\ IsNumber(Last(addCalls)[f])
            /\ ~IsNumber(lastSubmit.formData[f]) => Last(addCalls)[f] = 0

\* C11: while no user profile is set the data-entry flow runs no handler and
\* never calls addMeasurement, so the collection stays as it was; and every
\* measurement the flow adds carries the id of the profile that is current
\* when it is submitted.
C11_NoUserNoAddAndUserIdIsProfile ==
    /\ user = NoUser =>
           /\ ~lastSubmit.done
           /\ formData = initialFormData /\ errors = NoErrors /\ edits = 0
           /\ page = "entry"
           /\ addCalls = <<>>
           /\ measurements = mock
    /\ \A i \in 1..Len(addCalls) :
           /\ user # NoUser
           /\ addCalls[i].userId = user.id

C11_Witness ==
    /\ lastSubmit.done /\ lastSubmit.accepted
    /\ user.id = "2"
    /\ Last(addCalls).userId = "2"
    /\ Last(measurements) = Last(addCalls)

====
